---- MODULE Spec2Model ----
(***************************************************************************)
(* A model of pyelfcmp: the byte-range diff (utils.locate_array_diff), the *)
(* dictionary diff (utils.compare_dict), the occupancy model of one ELF    *)
(* file (ComparableElf._get_used_blocks, _get_not_used_blocks,             *)
(* _check_overlapped_blocks) and the comparison of two files               *)
(* (ComparableElf.compare_to and the _compare_* methods it calls).         *)
(*                                                                         *)
(* Byte values, offsets and sizes are scaled down: a byte is a number in   *)
(* 0..MaxByte, an offset a number in 0..MaxOff.  Python's None is the      *)
(* empty sequence <<>>, a present optional value v is <<v>>.               *)
(***************************************************************************)
EXTENDS Integers, Sequences, FiniteSets, TLC

\* ------------------------------------------------------------------ bounds

\* The longest byte array handed to locate_array_diff.
MaxLen == 4

\* The largest byte value: bytes are 0..MaxByte.
MaxByte == 1

\* compare_dict is given dictionaries over the keys 1..MaxKeys.
MaxKeys == 2

\* Offsets of tables and sections are 0..MaxOff, their sizes 0..MaxSize, and
\* a file of the occupancy model has at most MaxFile bytes.
MaxOff == 3

MaxSize == 2

MaxFile == 5
\* The calls of compare_to in a behaviour.
MaxCompares == 2

Byte == 0 .. MaxByte

\* All sequences over S of length at most n.
SeqsUpTo(S, n) == UNION { [1 .. k -> S] : k \in 0 .. n }

ByteArrays == SeqsUpTo(Byte, MaxLen)

Min(x, y) == IF x <= y THEN x ELSE y

\* ------------------------------------------------------------------ state

VARIABLES
    \* locate_array_diff: its two arguments and its return value
    \* (<<>> before the call returned).
    byte_array_1, byte_array_2, diff_index

locate_vars == <<byte_array_1, byte_array_2, diff_index>>

VARIABLES
    \* compare_dict: its arguments (the flags start at the defaults of the
    \* signature) and the DictDiff it returns (<<>> before the call returned).
    d1, d2, deep, include_modified, include_same, compare_function, dict_diff,
    \* the key a caller popped from dict_diff.modified afterwards, as <<key>>
    popped

dict_vars ==
    <<d1, d2, deep, include_modified, include_same, compare_function,
      dict_diff, popped>>

VARIABLES
    \* The ComparableElf objects of the process, by handle: each a record of
    \* the parsed file (header, sections, segments, stream) and the fields
    \* ComparableElf.__init__ sets (header_raw, used_blocks, not_used_blocks,
    \* other, compare_result).
    elf,
    \* The value the last call of _check_overlapped_blocks returned, as
    \* <<list>> (<<>> before any call).
    overlapped,
    \* The ElfDiff objects compare_to built, in the order of the calls;
    \* elf[h].compare_result is an index into them (0: the empty ElfDiff of
    \* __init__).
    reports,
    \* The list object that is the default value of the parameter
    \* diffs_in_not_used of AllBlocksDiff.__init__: Python evaluates the
    \* default "[]" once, when the class is defined.
    default_diffs_in_not_used,
    \* The calls of compare_to that run in threads of their own, by thread:
    \* the handles self and other, the place the call has reached (pc), the
    \* index i of the loop of _compare_blocks and the place of the call's
    \* ElfDiff in reports.
    calls

elf_vars == <<elf, overlapped, reports, default_diffs_in_not_used, calls>>

vars == <<locate_vars, dict_vars, elf_vars>>

\* ---------------------------------------------------- utils.locate_array_diff

\* The loop "for i in range(length)" from index i on: the first index at
\* which the arrays differ, or length when the loop runs to its end.
RECURSIVE ScanFrom(_, _, _, _)
ScanFrom(a, b, i, length) ==
    IF i >= length THEN length
    ELSE IF a[i + 1] /= b[i + 1] THEN i
    ELSE ScanFrom(a, b, i + 1, length)

\* A scan that forgets the length check after the loop.
locate_array_diff_no_length(a, b) ==
    LET length == Min(Len(a), Len(b))
        i == ScanFrom(a, b, 0, length)
    IN  IF i < length THEN i ELSE -1

\* A scan that reports the longer length on a length mismatch, which depends
\* on the order of the arguments only through the first array.
locate_array_diff_len_1(a, b) ==
    LET len_1 == Len(a)
        len_2 == Len(b)
        length == Min(len_1, len_2)
        i == ScanFrom(a, b, 0, length)
    IN  IF i < length THEN i
        ELSE IF len_1 /= len_2 THEN len_1
        ELSE -1

locate_array_diff(a, b) ==
    LET len_1 == Len(a)
        len_2 == Len(b)
        length == Min(len_1, len_2)
        i == ScanFrom(a, b, 0, length)
    IN  IF i < length THEN i
        ELSE IF len_1 /= len_2 THEN length
        ELSE -1

\* --------------------------------------------------------- utils.compare_dict
\* A Python value is a record [kind, val]: kind "atom" for a number or a
\* name, "map" for a Mapping (val is then a function from its keys to
\* values).  A dict is a function from its keys to values.

Atom(x) == [kind |-> "atom", val |-> x]

Mapping(f) == [kind |-> "map", val |-> f]

\* isinstance(v, Mapping)
IsMapping(v) == v.kind = "map"

\* operator.eq on two values: values of different kinds are never equal.
operator_eq(value_1, value_2) ==
    /\ value_1.kind = value_2.kind
    /\ value_1.val = value_2.val

\* compare_function(value_1, value_2): the default operator.eq, or the
\* caller's own comparator (here operator.ne).
CallCompare(compare_fn, value_1, value_2) ==
    IF compare_fn = "eq" THEN operator_eq(value_1, value_2)
    ELSE ~operator_eq(value_1, value_2)

\* The object DictDiff.__init__ builds.
DictDiff(left_new, right_new, common_keys, modified, same) ==
    [left_new |-> left_new, right_new |-> right_new,
     common_keys |-> common_keys, modified |-> modified, same |-> same]

\* DictDiff.has_changes
DictDiff_has_changes(diff) ==
    diff.left_new /= {} \/ diff.right_new /= {} \/ DOMAIN diff.modified /= {}

\* A subtraction that was left out: every key of the dictionary is "new".
NewKeys_all(keys_a, keys_b) == keys_a

\* d1_keys - d2_keys
NewKeys(keys_a, keys_b) == keys_a \ keys_b

\* "same" that takes every common key when include_same is set.
SameKeys_every_common(dict_1, dict_2, keys, incl_same, compare_fn) ==
    IF incl_same THEN keys ELSE {}

\* The keys the loop adds to "same".
SameKeys(dict_1, dict_2, keys, incl_same, compare_fn) ==
    IF incl_same
    THEN { key \in keys : CallCompare(compare_fn, dict_1[key], dict_2[key]) }
    ELSE {}

\* The keys the loop adds to "modified".
ModifiedKeys(dict_1, dict_2, keys, incl_modified, compare_fn) ==
    IF incl_modified
    THEN { key \in keys : ~CallCompare(compare_fn, dict_1[key], dict_2[key]) }
    ELSE {}

RECURSIVE compare_dict(_, _, _, _, _, _)

\* An entry that is always the pair of values, also for two mappings.
ModifiedEntry_never_deep(value_1, value_2, deep_, incl_same) ==
    [kind |-> "pair", left |-> value_1, right |-> value_2]

\* The value stored under a modified key: the DictDiff of the two values
\* when deep is set and both are mappings, the pair of values otherwise.
\* The inner call passes include_same and deep; include_modified and
\* compare_function take their defaults.
ModifiedEntry(value_1, value_2, deep_, incl_same) ==
    IF deep_ /\ IsMapping(value_1) /\ IsMapping(value_2)
    THEN [kind |-> "diff",
          diff |-> compare_dict(value_1.val, value_2.val, deep_, TRUE,
                                incl_same, "eq")]
    ELSE [kind |-> "pair", left |-> value_1, right |-> value_2]

compare_dict(dict_1, dict_2, deep_, incl_modified, incl_same, compare_fn) ==
    LET d1_keys == DOMAIN dict_1
        d2_keys == DOMAIN dict_2
        intersect_keys == d1_keys \cap d2_keys
        d1_new == NewKeys(d1_keys, d2_keys)
        d2_new == NewKeys(d2_keys, d1_keys)
        same == SameKeys(dict_1, dict_2, intersect_keys, incl_same, compare_fn)
        modified ==
            [key \in ModifiedKeys(dict_1, dict_2, intersect_keys,
                                  incl_modified, compare_fn) |->
                ModifiedEntry(dict_1[key], dict_2[key], deep_, incl_same)]
    IN  DictDiff(d1_new, d2_new, intersect_keys, modified, same)

\* dict.pop(key, None) on a dict: the dict without the key.
DictPop(dict, key) == [k \in (DOMAIN dict) \ {key} |-> dict[k]]

\* ------------------------------------------------------------ structs.Block

\* The object Block.__init__ builds.  elf is the handle of the file the
\* block belongs to; object_ says what the block stands for: nothing, the
\* header dictionary, or the section at an index of the file's section list.
Block(start_offset, size, block_type, elf_, object_) ==
    [start_offset |-> start_offset, size |-> size, block_type |-> block_type,
     elf |-> elf_, object_ |-> object_]

NoObject == [kind |-> "None", index |-> 0]

HeaderObject == [kind |-> "header_raw", index |-> 0]

SectionObject(i) == [kind |-> "Section", index |-> i]

\* Block.last_offset
Block_last_offset(block) == block.start_offset + block.size - 1

\* Block.end_offset
Block_end_offset(block) == block.start_offset + block.size

\* ------------------------------------------- ComparableElf: the occupancy

\* A parsed file is a record [header, sections, segments, stream]: header
\* maps the names of the ELF header fields to their values (e_ident to the
\* mapping of its sub-fields), a section is [name, header, null] with header
\* the sh_* fields and null the answer of Section.is_null(), a segment is
\* its p_* fields, stream is the sequence of the file's bytes.

\* The header with e_ident replaced by its sub-fields, as a dictionary of
\* values (read_metadata).
HeaderRaw(header) ==
    LET top == (DOMAIN header) \ {"e_ident"}
        ident == header["e_ident"]
    IN  [k \in top \cup DOMAIN ident |->
            IF k \in DOMAIN ident THEN Atom(ident[k]) ELSE Atom(header[k])]

\* ComparableElf.file_size
file_size(file) == Len(file.stream)

\* The sections _get_used_blocks skips.
IsDummySection(section) ==
    \/ section.header["sh_size"] = 0
    \/ section.null
    \/ section.header["sh_type"] \in {"SHT_NOBITS", "SHT_NULL"}

\* The loop over self.sections from index i on: the blocks it appends.
RECURSIVE SectionBlocks(_, _, _)
SectionBlocks(self, sections, i) ==
    IF i > Len(sections) THEN <<>>
    ELSE LET section == sections[i]
             rest == SectionBlocks(self, sections, i + 1)
         IN  IF IsDummySection(section) THEN rest
             ELSE <<Block(section.header["sh_offset"], section.header["sh_size"],
                          "SECTION", self, SectionObject(i))>> \o rest

\* The number of leading blocks of a list that start at or before an offset.
RECURSIVE LeadingUpTo(_, _)
LeadingUpTo(blocks, offset) ==
    IF blocks = <<>> \/ Head(blocks).start_offset > offset THEN 0
    ELSE 1 + LeadingUpTo(Tail(blocks), offset)

\* A sort that puts a block before the blocks that start at its offset.
RECURSIVE SortByStartOffset_ties_reversed(_)
SortByStartOffset_ties_reversed(blocks) ==
    IF blocks = <<>> THEN <<>>
    ELSE LET n == Len(blocks)
             sorted == SortByStartOffset_ties_reversed(SubSeq(blocks, 1, n - 1))
             b == blocks[n]
             k == IF b.start_offset = 0 THEN 0
                  ELSE LeadingUpTo(sorted, b.start_offset - 1)
         IN  SubSeq(sorted, 1, k) \o <<b>> \o SubSeq(sorted, k + 1, n - 1)

\* list.sort(key=lambda b: b.start_offset): ascending and stable, a block
\* stays behind the earlier blocks that start at the same offset.
RECURSIVE SortByStartOffset(_)
SortByStartOffset(blocks) ==
    IF blocks = <<>> THEN <<>>
    ELSE LET n == Len(blocks)
             sorted == SortByStartOffset(SubSeq(blocks, 1, n - 1))
             b == blocks[n]
             k == LeadingUpTo(sorted, b.start_offset)
         IN  SubSeq(sorted, 1, k) \o <<b>> \o SubSeq(sorted, k + 1, n - 1)

\* ComparableElf._get_used_blocks
GetUsedBlocks(self, file) ==
    LET h == file.header
        result ==
            <<Block(0, h["e_ehsize"], "ELF_HEADER", self, HeaderObject),
              Block(h["e_phoff"], h["e_phentsize"] * h["e_phnum"],
                    "PROGRAM_HEADER_TABLE", self, NoObject),
              Block(h["e_shoff"], h["e_shentsize"] * h["e_shnum"],
                    "SECTION_HEADER_TABLE", self, NoObject)>>
            \o SectionBlocks(self, file.sections, 1)
    IN  SortByStartOffset(result)

\* A gap test that also reports a gap of no bytes between sticked blocks.
HasSpaceBetween_sticked(cur_block, next_block) ==
    ~(Block_end_offset(cur_block) > next_block.start_offset)

\* The test of the loop of _get_not_used_blocks: the blocks are neither
\* sticked nor overlapped.
HasSpaceBetween(cur_block, next_block) ==
    ~(Block_end_offset(cur_block) >= next_block.start_offset)

\* The loop "for i in range(len(used_blocks) - 1)" of _get_not_used_blocks
\* from index i (counted from 1) on: the blocks it appends.
RECURSIVE BlocksBetween(_, _, _)
BlocksBetween(self, used_blocks, i) ==
    IF i > Len(used_blocks) - 1 THEN <<>>
    ELSE LET cur_block == used_blocks[i]
             next_block == used_blocks[i + 1]
             rest == BlocksBetween(self, used_blocks, i + 1)
         IN  IF ~HasSpaceBetween(cur_block, next_block) THEN rest
             ELSE <<Block(Block_end_offset(cur_block),
                          next_block.start_offset - Block_end_offset(cur_block),
                          "NOT_USED", self, NoObject)>> \o rest

\* ComparableElf._get_not_used_blocks, given self.used_blocks (never empty:
\* _get_used_blocks always returns the three header blocks).
GetNotUsedBlocks(self, file, used_blocks) ==
    LET between == IF Len(used_blocks) > 1
                   THEN BlocksBetween(self, used_blocks, 1)
                   ELSE <<>>
        last_used_block == used_blocks[Len(used_blocks)]
        size == file_size(file)
        after == IF Block_end_offset(last_used_block) < size
                 THEN <<Block(Block_end_offset(last_used_block),
                              size - Block_end_offset(last_used_block),
                              "NOT_USED", self, NoObject)>>
                 ELSE <<>>
    IN  SortByStartOffset(between \o after)

\* The loop of _check_overlapped_blocks from index i (counted from 1) on.
RECURSIVE OverlappedFrom(_, _)
OverlappedFrom(blocks, i) ==
    IF i > Len(blocks) - 1 THEN <<>>
    ELSE LET cur_block == blocks[i]
             next_block == blocks[i + 1]
             rest == OverlappedFrom(blocks, i + 1)
         IN  IF Block_last_offset(cur_block) > next_block.start_offset
             THEN <<<<cur_block, next_block>>>> \o rest
             ELSE rest

\* ComparableElf._check_overlapped_blocks
CheckOverlappedBlocks(blocks) == OverlappedFrom(blocks, 1)

\* ComparableElf.__init__: the object of a parsed file, read_metadata done,
\* other None (<<>>) and compare_result a fresh ElfDiff (report 0).
ComparableElf(self, file) ==
    LET used == GetUsedBlocks(self, file) IN
    [header |-> file.header,
     sections |-> file.sections,
     segments |-> file.segments,
     stream |-> file.stream,
     header_raw |-> HeaderRaw(file.header),
     used_blocks |-> used,
     not_used_blocks |-> GetNotUsedBlocks(self, file, used),
     other |-> <<>>,
     compare_result |-> 0]

\* ------------------------------------------ structs: the result objects

\* stream.seek(start_offset); stream.read(size): the bytes of the stream in
\* [start_offset, start_offset + size), fewer when the stream ends before.
StreamRead(stream, start_offset, size) ==
    SubSeq(stream, start_offset + 1, Min(start_offset + size, Len(stream)))

\* Block.data: the bytes of the block in the stream of the block's file.
Block_data(block) == StreamRead(elf[block.elf].stream, block.start_offset, block.size)

\* Section.data() of elftools: the sh_size bytes at sh_offset of the stream,
\* zero bytes for a SHT_NOBITS section.
Section_data(section, stream) ==
    IF section.header["sh_type"] = "SHT_NOBITS"
    THEN [i \in 1 .. section.header["sh_size"] |-> 0]
    ELSE StreamRead(stream, section.header["sh_offset"], section.header["sh_size"])

\* The object SectionDiff.__init__ builds; None is <<>>, a DictDiff d is
\* <<d>>, the tuple of two sizes is <<len_1, len_2>>.
SectionDiff(headers, data_sizes, data_diff_offset) ==
    [headers |-> headers, data_sizes |-> data_sizes,
     data_diff_offset |-> data_diff_offset]

\* SectionDiff.has_changes
SectionDiff_has_changes(diff) ==
    ~(diff.headers = <<>> /\ diff.data_sizes = <<>> /\ diff.data_diff_offset = -1)

\* The object AllSectionsDiff.__init__ builds.
AllSectionsDiff(left_new, right_new, modified) ==
    [left_new |-> left_new, right_new |-> right_new, modified |-> modified]

\* AllSectionsDiff.has_changes
AllSectionsDiff_has_changes(diff) ==
    diff.left_new /= {} \/ diff.right_new /= {} \/ DOMAIN diff.modified /= {}

\* The object NotUsedBlockDiff.__init__ builds and _compare_blocks fills.
NotUsedBlockDiff(left_block, right_block, data_sizes, data_diff_offset) ==
    [left_block |-> left_block, right_block |-> right_block,
     data_sizes |-> data_sizes, data_diff_offset |-> data_diff_offset]

\* A test that takes every pair of blocks for changed.
NotUsedBlockDiff_has_changes_always(diff) == TRUE

\* NotUsedBlockDiff.has_changes
NotUsedBlockDiff_has_changes(diff) ==
    diff.data_sizes /= <<>> \/ diff.data_diff_offset /= -1

\* The object AllBlocksDiff.__init__ builds.  _compare_blocks calls it
\* without arguments, so diffs_in_not_used is not a list of the object's
\* own: it is the default list, which the field names.
AllBlocksDiff(left_overlaps_in_used, right_overlaps_in_used, counts_of_not_used) ==
    [left_overlaps_in_used |-> left_overlaps_in_used,
     right_overlaps_in_used |-> right_overlaps_in_used,
     counts_of_not_used |-> counts_of_not_used,
     diffs_in_not_used |-> "default_diffs_in_not_used"]

\* The list the field diffs_in_not_used of an AllBlocksDiff names.
DiffsInNotUsed(diff) ==
    IF diff.diffs_in_not_used = "default_diffs_in_not_used"
    THEN default_diffs_in_not_used ELSE <<>>

\* AllBlocksDiff.has_changes, given the content of the list the object's
\* diffs_in_not_used names.
AllBlocksDiff_has_changes(diff, diffs_in_not_used) ==
    \/ diff.left_overlaps_in_used /= <<>>
    \/ diff.right_overlaps_in_used /= <<>>
    \/ diff.counts_of_not_used /= <<>>
    \/ diffs_in_not_used /= <<>>

\* The object ElfDiff.__init__ builds and compare_to fills.
ElfDiff(left_elf, right_elf, compared_elf_headers, compared_segments, compared_sections, compared_blocks) ==
    [left_elf |-> left_elf, right_elf |-> right_elf,
     compared_elf_headers |-> compared_elf_headers,
     compared_segments |-> compared_segments,
     compared_sections |-> compared_sections,
     compared_blocks |-> compared_blocks]

\* A has_changes that leaves the headers out.
ElfDiff_has_changes_no_headers(diff, diffs_in_not_used) ==
    \/ DictDiff_has_changes(diff.compared_segments)
    \/ AllSectionsDiff_has_changes(diff.compared_sections)
    \/ AllBlocksDiff_has_changes(diff.compared_blocks, diffs_in_not_used)

\* ElfDiff.has_changes
ElfDiff_has_changes(diff, diffs_in_not_used) ==
    \/ DictDiff_has_changes(diff.compared_elf_headers)
    \/ DictDiff_has_changes(diff.compared_segments)
    \/ AllSectionsDiff_has_changes(diff.compared_sections)
    \/ AllBlocksDiff_has_changes(diff.compared_blocks, diffs_in_not_used)

\* ------------------------------------------- ComparableElf: the comparison

\* A record of fields as a dictionary of values.
AsDict(fields) == [k \in DOMAIN fields |-> Atom(fields[k])]

\* A dictionary that keeps the first value stored under a key.
LastIndex_first(indices) == CHOOSE i \in indices : \A j \in indices : i <= j

\* The last of the indices of the elements stored under one key (a
\* dictionary built in a loop keeps the last value stored under a key).
LastIndex(indices) == CHOOSE i \in indices : \A j \in indices : j <= i

\* _group_segments: the segment headers by p_type and, within a type, by
\* p_offset.
group_segments(segments) ==
    LET types == { segments[i]["p_type"] : i \in DOMAIN segments }
        OffsetsOf(type) ==
            { segments[i]["p_offset"] :
                i \in { i \in DOMAIN segments : segments[i]["p_type"] = type } }
        HeaderAt(type, offset) ==
            segments[LastIndex({ i \in DOMAIN segments :
                                    /\ segments[i]["p_type"] = type
                                    /\ segments[i]["p_offset"] = offset })]
    IN  [type \in types |->
            Mapping([offset \in OffsetsOf(type) |->
                        Mapping(AsDict(HeaderAt(type, offset)))])]

\* ComparableElf._compare_segments: the value of compared_segments.
CompareSegments(self, other) ==
    compare_dict(group_segments(self.segments), group_segments(other.segments),
                 TRUE, TRUE, FALSE, "eq")

\* {s.name : s for s in sections}
SectionsDict(sections) ==
    [name \in { sections[i].name : i \in DOMAIN sections } |->
        sections[LastIndex({ i \in DOMAIN sections : sections[i].name = name })]]

\* A post-filter that leaves sh_name in the dictionary.
PopShName_kept(modified) == modified

\* compared_headers.modified.pop("sh_name", None)
PopShName(modified) == DictPop(modified, "sh_name")

\* The body of the loop of _compare_sections: the SectionDiff of two
\* sections of the same name.
CompareSection(section_1, stream_1, section_2, stream_2) ==
    LET compared ==
            compare_dict(AsDict(section_1.header), AsDict(section_2.header),
                         FALSE, TRUE, FALSE, "eq")
        compared_headers == [compared EXCEPT !.modified = PopShName(@)]
        data_1 == Section_data(section_1, stream_1)
        data_2 == Section_data(section_2, stream_2)
        len_1 == Len(data_1)
        len_2 == Len(data_2)
        diff_index_ == locate_array_diff(data_1, data_2)
    IN  SectionDiff(
            IF DictDiff_has_changes(compared_headers)
                THEN <<compared_headers>> ELSE <<>>,
            IF len_1 /= len_2 THEN <<len_1, len_2>> ELSE <<>>,
            diff_index_)

\* ComparableElf._compare_sections: the value of compared_sections.  The
\* sections are compared by name as objects that are no mappings.
CompareSections(self, other) ==
    LET sections_dict_1 == SectionsDict(self.sections)
        sections_dict_2 == SectionsDict(other.sections)
        compared_section_names ==
            compare_dict(AsDict(sections_dict_1), AsDict(sections_dict_2),
                         TRUE, FALSE, TRUE, "eq")
        common_section_names == compared_section_names.common_keys
        Compared(name) ==
            CompareSection(sections_dict_1[name], self.stream,
                           sections_dict_2[name], other.stream)
        modified_sections ==
            [name \in { n \in common_section_names :
                          SectionDiff_has_changes(Compared(n)) } |->
                Compared(name)]
    IN  AllSectionsDiff(compared_section_names.left_new,
                        compared_section_names.right_new,
                        modified_sections)

\* The loop of _compare_blocks over zip(self.not_used_blocks,
\* other.not_used_blocks) from index i on: the NotUsedBlockDiff objects it
\* appends to result.diffs_in_not_used.
RECURSIVE NotUsedDiffsFrom(_, _, _)
NotUsedDiffsFrom(blocks_1, blocks_2, i) ==
    IF i > Min(Len(blocks_1), Len(blocks_2)) THEN <<>>
    ELSE LET block_1 == blocks_1[i]
             block_2 == blocks_2[i]
             data_sizes == IF block_1.size /= block_2.size
                           THEN <<block_1.size, block_2.size>> ELSE <<>>
             data_diff_offset ==
                 locate_array_diff(Block_data(block_1), Block_data(block_2))
             block_diff == NotUsedBlockDiff(<<>>, <<>>, data_sizes, data_diff_offset)
             rest == NotUsedDiffsFrom(blocks_1, blocks_2, i + 1)
         IN  IF NotUsedBlockDiff_has_changes(block_diff)
             THEN <<NotUsedBlockDiff(<<block_1>>, <<block_2>>, data_sizes,
                                     data_diff_offset)>> \o rest
             ELSE rest

\* The blocks _compare_blocks hands to _check_overlapped_blocks.
OverlapInput(object) == object.not_used_blocks

\* ComparableElf._compare_blocks: the value of compared_blocks and the
\* objects it appends to the list diffs_in_not_used names.
CompareBlocks(self, other) ==
    LET not_used_blocks_counts ==
            <<Len(self.not_used_blocks), Len(other.not_used_blocks)>>
        equal_counts == not_used_blocks_counts[1] = not_used_blocks_counts[2]
    IN  [result |->
            AllBlocksDiff(CheckOverlappedBlocks(OverlapInput(self)),
                          CheckOverlappedBlocks(OverlapInput(other)),
                          IF equal_counts THEN <<>> ELSE not_used_blocks_counts),
         appended |->
            IF equal_counts
            THEN NotUsedDiffsFrom(self.not_used_blocks, other.not_used_blocks, 1)
            ELSE <<>>]

\* ComparableElf.compare_to on the objects with handles self and other: the
\* ElfDiff it returns and the objects it appends to the default list.
compare_to(self, other) ==
    LET blocks == CompareBlocks(elf[self], elf[other]) IN
    [result |->
        ElfDiff(self, other,
                compare_dict(elf[self].header_raw, elf[other].header_raw,
                             FALSE, TRUE, FALSE, "eq"),
                CompareSegments(elf[self], elf[other]),
                CompareSections(elf[self], elf[other]),
                blocks.result),
     appended |-> blocks.appended]

\* ----------------------------------------------- specification SpecLocate
\* locate_array_diff applied to every pair of byte arrays within the bounds.

LocateIdle ==
    /\ byte_array_1 = <<>>
    /\ byte_array_2 = <<>>
    /\ diff_index = <<>>

DictIdle ==
    /\ d1 = <<>>
    /\ d2 = <<>>
    /\ deep = FALSE
    /\ include_modified = TRUE
    /\ include_same = TRUE
    /\ compare_function = "eq"
    /\ dict_diff = <<>>
    /\ popped = <<>>

\* No ComparableElf object exists.
ElfIdle ==
    /\ elf = <<>>
    /\ overlapped = <<>>
    /\ reports = <<>>
    /\ default_diffs_in_not_used = <<>>
    /\ calls = <<>>

LocateInit ==
    /\ byte_array_1 \in ByteArrays
    /\ byte_array_2 \in ByteArrays
    /\ diff_index = <<>>
    /\ DictIdle
    /\ ElfIdle

\* One call of locate_array_diff(byte_array_1, byte_array_2).
LocateArrayDiff ==
    /\ diff_index = <<>>
    /\ diff_index' = <<locate_array_diff(byte_array_1, byte_array_2)>>
    /\ UNCHANGED <<byte_array_1, byte_array_2, dict_vars, elf_vars>>

LocateNext == LocateArrayDiff

SpecLocate == LocateInit /\ [][LocateNext]_vars

\* The index the documentation of locate_array_diff promises, stated
\* without the loop: the least differing index of the common part, else the
\* shorter length when the lengths differ, else -1.
FirstDifference(a, b) ==
    LET n == Min(Len(a), Len(b))
        differing == { i \in 0 .. n - 1 : a[i + 1] /= b[i + 1] }
    IN  IF differing /= {}
        THEN CHOOSE i \in differing : \A j \in differing : i <= j
        ELSE IF Len(a) /= Len(b) THEN n
        ELSE -1

\* C1: locate_array_diff(a, b) is the smallest index below min(len(a),
\* len(b)) at which a and b differ if there is one; otherwise min(len(a),
\* len(b)) when the lengths differ and -1 when they are equal.  It is -1 for
\* two empty arrays and 0 when exactly one array is empty.
C1_LocateArrayDiff ==
    diff_index /= <<>> =>
        /\ diff_index[1] = FirstDifference(byte_array_1, byte_array_2)
        /\ (byte_array_1 = <<>> /\ byte_array_2 = <<>> => diff_index[1] = -1)
        /\ ((byte_array_1 = <<>>) /= (byte_array_2 = <<>>) => diff_index[1] = 0)

\* The shape of the test's last case, [1,2,3] against [1,1,3,4]: lengths 3
\* and 4, first difference at index 1.
C1_Witness ==
    /\ Len(byte_array_1) = 3
    /\ Len(byte_array_2) = 4
    /\ byte_array_1[1] = byte_array_2[1]
    /\ byte_array_1[2] /= byte_array_2[2]
    /\ diff_index = <<1>>

\* C2: locate_array_diff is reflexive, locate_array_diff(a, a) = -1, and
\* symmetric, locate_array_diff(a, b) = locate_array_diff(b, a).
C2_ReflexiveSymmetric ==
    diff_index /= <<>> =>
        /\ (byte_array_1 = byte_array_2 => diff_index[1] = -1)
        /\ locate_array_diff(byte_array_1, byte_array_1) = -1
        /\ locate_array_diff(byte_array_2, byte_array_2) = -1
        /\ diff_index[1] = locate_array_diff(byte_array_2, byte_array_1)

\* Two arrays of different lengths with equal common part: the call
\* returned the shorter length whichever array came first.
C2_Witness ==
    /\ Len(byte_array_1) = 2
    /\ Len(byte_array_2) = 4
    /\ diff_index = <<2>>
    /\ locate_array_diff(byte_array_2, byte_array_1) = 2

\* ------------------------------------------------- specification SpecDict
\* compare_dict applied to every pair of dictionaries over DictKeys whose
\* values are atoms or one-level mappings, with every combination of flags.

DictKeys == 1 .. MaxKeys

DictAtoms == { Atom(x) : x \in {0, 1} }

InnerKeys == {"x"}

\* Every dictionary with keys in K and values in V.
Dicts(K, V) == UNION { [S -> V] : S \in SUBSET K }

DictValues == DictAtoms \cup { Mapping(f) : f \in Dicts(InnerKeys, DictAtoms) }

DictInit ==
    /\ d1 \in Dicts(DictKeys, DictValues)
    /\ d2 \in Dicts(DictKeys, DictValues)
    /\ deep = FALSE
    /\ include_modified = TRUE
    /\ include_same = TRUE
    /\ compare_function = "eq"
    /\ dict_diff = <<>>
    /\ popped = <<>>
    /\ LocateIdle
    /\ ElfIdle

\* One call compare_dict(d1, d2, deep, include_modified, include_same,
\* compare_function).
CompareDict ==
    /\ dict_diff = <<>>
    /\ \E dp \in BOOLEAN, im \in BOOLEAN, is \in BOOLEAN, cf \in {"eq", "ne"} :
          /\ deep' = dp
          /\ include_modified' = im
          /\ include_same' = is
          /\ compare_function' = cf
          /\ dict_diff' = <<compare_dict(d1, d2, dp, im, is, cf)>>
    /\ UNCHANGED <<d1, d2, popped, locate_vars, elf_vars>>

\* The caller's post-filter of _compare_sections on the diff of two flat
\* dictionaries: compared_headers.modified.pop(key, None).
ModifiedPop ==
    /\ dict_diff /= <<>>
    /\ popped = <<>>
    /\ ~deep /\ include_modified /\ ~include_same /\ compare_function = "eq"
    /\ \E key \in DictKeys :
          /\ popped' = <<key>>
          /\ dict_diff' =
                <<[dict_diff[1] EXCEPT !.modified = DictPop(@, key)]>>
    /\ UNCHANGED <<d1, d2, deep, include_modified, include_same,
                   compare_function, locate_vars, elf_vars>>

DictNext == CompareDict \/ ModifiedPop

SpecDict == DictInit /\ [][DictNext]_vars

\* Whether compare_function holds of the two values under a common key.
EqualAt(key) == CallCompare(compare_function, d1[key], d2[key])

\* C3: the result of compare_dict has left_new = keys(d1) \ keys(d2),
\* right_new = keys(d2) \ keys(d1) and common_keys = keys(d1) \cap keys(d2),
\* whatever the flags; so left_new and right_new are disjoint, left_new with
\* common_keys is keys(d1) and right_new with common_keys is keys(d2).
C3_KeyPartition ==
    dict_diff /= <<>> =>
        LET r == dict_diff[1] IN
        /\ r.left_new = (DOMAIN d1) \ (DOMAIN d2)
        /\ r.right_new = (DOMAIN d2) \ (DOMAIN d1)
        /\ r.common_keys = (DOMAIN d1) \cap (DOMAIN d2)
        /\ r.left_new \cap r.right_new = {}
        /\ r.left_new \cup r.common_keys = DOMAIN d1
        /\ r.right_new \cup r.common_keys = DOMAIN d2

\* Both dictionaries have a key of their own and the flags are not the
\* defaults.
C3_Witness ==
    /\ dict_diff /= <<>>
    /\ dict_diff[1].left_new /= {}
    /\ dict_diff[1].right_new /= {}
    /\ deep /\ ~include_modified /\ ~include_same

\* The DictDiff objects stored under the modified keys of a DictDiff.
NestedDiffs(diff) ==
    { diff.modified[key].diff :
        key \in { k \in DOMAIN diff.modified : diff.modified[k].kind = "diff" } }

\* C4 as claimed: in every DictDiff, the top-level result and the nested
\* ones, common_keys = same \cup keys(modified).
C4_CommonIsSameOrModified ==
    dict_diff /= <<>> =>
        LET r == dict_diff[1] IN
        /\ r.common_keys = r.same \cup DOMAIN r.modified
        /\ \A n \in NestedDiffs(r) :
              n.common_keys = n.same \cup DOMAIN n.modified

\* C4 as amended: same and keys(modified) are disjoint subsets of
\* common_keys.  The common keys in neither are exactly the equal keys when
\* include_same is off, the unequal keys when include_modified is off, and
\* the key the caller popped from modified; so common_keys = same \cup
\* keys(modified) holds for a result built with both flags on and not
\* post-filtered.  A nested result, built with include_modified on, has
\* common_keys = same \cup keys(modified) when include_same is on.
C4_SameAndModifiedWithinCommon ==
    dict_diff /= <<>> =>
        LET r == dict_diff[1]
            covered == r.same \cup DOMAIN r.modified
        IN  /\ covered \subseteq r.common_keys
            /\ r.same \cap DOMAIN r.modified = {}
            /\ r.common_keys \ covered =
                  { k \in r.common_keys :
                      \/ EqualAt(k) /\ ~include_same
                      \/ ~EqualAt(k) /\ (~include_modified \/ popped = <<k>>) }
            /\ (include_same /\ include_modified /\ popped = <<>>
                  => r.common_keys = covered)
            /\ \A n \in NestedDiffs(r) :
                  /\ n.same \cup DOMAIN n.modified \subseteq n.common_keys
                  /\ n.same \cap DOMAIN n.modified = {}
                  /\ (include_same => n.common_keys = n.same \cup DOMAIN n.modified)

\* A result built with both flags on that has an equal and an unequal key.
C4_Witness ==
    /\ dict_diff /= <<>>
    /\ include_same /\ include_modified
    /\ dict_diff[1].same /= {}
    /\ DOMAIN dict_diff[1].modified /= {}

\* The DictDiff of two one-level mappings of atoms compared with operator.eq
\* and include_modified on, stated without compare_dict.
ExpectedNested(m1, m2, incl_same) ==
    LET common == (DOMAIN m1) \cap (DOMAIN m2) IN
    [left_new |-> (DOMAIN m1) \ (DOMAIN m2),
     right_new |-> (DOMAIN m2) \ (DOMAIN m1),
     common_keys |-> common,
     modified |-> [j \in { j \in common : m1[j] /= m2[j] } |->
                      [kind |-> "pair", left |-> m1[j], right |-> m2[j]]],
     same |-> IF incl_same THEN { j \in common : m1[j] = m2[j] } ELSE {}]

\* C5: a common key whose values compare_function accepts is in same iff
\* include_same and never in modified; any other common key is in modified
\* iff include_modified and never in same.  The entry of a modified key is
\* the DictDiff of the two values, built with the same deep and include_same,
\* when deep is set and both values are mappings, and the pair of the values
\* otherwise.
C5_Classification ==
    (dict_diff /= <<>> /\ popped = <<>>) =>
        LET r == dict_diff[1] IN
        \A k \in (DOMAIN d1) \cap (DOMAIN d2) :
            /\ EqualAt(k) =>
                  /\ (k \in r.same) = include_same
                  /\ k \notin DOMAIN r.modified
            /\ ~EqualAt(k) =>
                  /\ (k \in DOMAIN r.modified) = include_modified
                  /\ k \notin r.same
            /\ k \in DOMAIN r.modified =>
                  r.modified[k] =
                      IF deep /\ IsMapping(d1[k]) /\ IsMapping(d2[k])
                      THEN [kind |-> "diff",
                            diff |-> ExpectedNested(d1[k].val, d2[k].val,
                                                    include_same)]
                      ELSE [kind |-> "pair", left |-> d1[k], right |-> d2[k]]

\* A deep call whose comparator rejected two mappings, and another call in
\* which a modified key holds the pair of an atom and a mapping.
C5_Witness ==
    /\ dict_diff /= <<>>
    /\ popped = <<>>
    /\ deep
    /\ \E k \in DOMAIN dict_diff[1].modified :
          /\ dict_diff[1].modified[k].kind = "diff"
          /\ DOMAIN dict_diff[1].modified[k].diff.modified /= {}
    /\ \E k \in DOMAIN dict_diff[1].modified :
          /\ dict_diff[1].modified[k].kind = "pair"
          /\ IsMapping(d1[k]) /= IsMapping(d2[k])

\* -------------------------------------------- specification SpecOccupancy
\* One ComparableElf object for every file layout within the bounds, on
\* which _check_overlapped_blocks is called with the used or the not-used
\* blocks.

Offsets == 0 .. MaxOff

Sizes == 0 .. MaxSize

\* A file has no, one or two sections.
SectionCounts == 0 .. 2

\* The sections of the layouts: a section with bytes in the file anywhere
\* and of any size, a SHT_NOBITS section at the first or the last offset,
\* the null section at offset 0.  is_null() holds of the NullSection elftools builds for the
\* type SHT_NULL and of no other section.
OccSection(i, type, offset, size) ==
    [name |-> i,
     header |-> [sh_name |-> i, sh_type |-> type, sh_offset |-> offset,
                 sh_size |-> size],
     null |-> (type = "SHT_NULL")]

OccSections(i) ==
    { OccSection(i, "SHT_PROGBITS", o, sz) : o \in Offsets, sz \in Sizes }
    \cup { OccSection(i, "SHT_NOBITS", o, MaxSize) : o \in {0, MaxOff} }
    \cup { OccSection(i, "SHT_NULL", 0, sz) : sz \in 0 .. 1 }

OccSectionLists ==
    { secs \in UNION { { <<>> },
                       { <<a>> : a \in OccSections(1) },
                       { <<a, b>> : a \in OccSections(1), b \in OccSections(2) } } :
        Len(secs) \in SectionCounts }

\* The layouts: a header of no or MaxSize bytes, a program header table of
\* no or one entry of one or two bytes, a section header table of one byte
\* for each section, and a stream of no, MaxSize or MaxFile zero bytes.
OccFile(eh, phoff, phent, phnum, shoff, secs, fsize) ==
    [header |->
        [e_ehsize |-> eh, e_phoff |-> phoff, e_phentsize |-> phent,
         e_phnum |-> phnum, e_shoff |-> shoff, e_shentsize |-> 1,
         e_shnum |-> Len(secs),
         e_ident |-> [EI_OSABI |-> 0, EI_ABIVERSION |-> 0]],
     sections |-> secs,
     segments |-> [i \in 1 .. phnum |-> [p_type |-> "PT_LOAD", p_offset |-> 0]],
     stream |-> [i \in 1 .. fsize |-> 0]]

OccInit ==
    /\ \E eh \in {0, MaxSize}, phoff \in Offsets, phent \in 1 .. 2,
          phnum \in 0 .. 1, shoff \in Offsets, secs \in OccSectionLists,
          fsize \in {0, MaxSize, MaxFile} :
          elf = [h \in {1} |->
                    ComparableElf(h, OccFile(eh, phoff, phent, phnum, shoff,
                                             secs, fsize))]
    /\ overlapped = <<>>
    /\ reports = <<>>
    /\ default_diffs_in_not_used = <<>>
    /\ calls = <<>>
    /\ LocateIdle
    /\ DictIdle

\* _check_overlapped_blocks called with the used blocks of the file.
CheckUsedBlocks ==
    /\ overlapped = <<>>
    /\ overlapped' = <<CheckOverlappedBlocks(elf[1].used_blocks)>>
    /\ UNCHANGED <<elf, reports, default_diffs_in_not_used, calls, locate_vars,
                   dict_vars>>

OccNext == CheckUsedBlocks

SpecOccupancy == OccInit /\ [][OccNext]_vars

\* The elements of a sequence.
Range(seq) == { seq[i] : i \in DOMAIN seq }

\* The place of a used block in the order _get_used_blocks emits them: the
\* ELF header, the program header table, the section header table, then the
\* sections in declaration order.
EmissionRank(block) ==
    CASE block.block_type = "ELF_HEADER" -> 1
      [] block.block_type = "PROGRAM_HEADER_TABLE" -> 2
      [] block.block_type = "SECTION_HEADER_TABLE" -> 3
      [] OTHER -> 3 + block.object_.index

\* C6: the used blocks of a file are exactly the ELF_HEADER block
\* [0, e_ehsize), the PROGRAM_HEADER_TABLE block at e_phoff of e_phentsize *
\* e_phnum bytes, the SECTION_HEADER_TABLE block at e_shoff of e_shentsize *
\* e_shnum bytes (each present also when empty) and one SECTION block
\* (sh_offset, sh_size) for each section of non-zero size that is not null
\* and of neither type SHT_NOBITS nor SHT_NULL; they are in ascending order
\* of start_offset, blocks of equal start_offset in emission order.
C6_UsedBlocks ==
    \A h \in DOMAIN elf :
        LET e == elf[h]
            hd == e.header
            used == e.used_blocks
            expected ==
                { Block(0, hd["e_ehsize"], "ELF_HEADER", h, HeaderObject),
                  Block(hd["e_phoff"], hd["e_phentsize"] * hd["e_phnum"],
                        "PROGRAM_HEADER_TABLE", h, NoObject),
                  Block(hd["e_shoff"], hd["e_shentsize"] * hd["e_shnum"],
                        "SECTION_HEADER_TABLE", h, NoObject) }
                \cup
                { Block(e.sections[i].header["sh_offset"],
                        e.sections[i].header["sh_size"], "SECTION", h,
                        SectionObject(i)) :
                    i \in { i \in DOMAIN e.sections :
                              /\ e.sections[i].header["sh_size"] /= 0
                              /\ ~e.sections[i].null
                              /\ e.sections[i].header["sh_type"]
                                    \notin {"SHT_NOBITS", "SHT_NULL"} } }
        IN  /\ Range(used) = expected
            /\ Len(used) = Cardinality(expected)
            /\ \A i, j \in DOMAIN used :
                  i < j =>
                    \/ used[i].start_offset < used[j].start_offset
                    \/ /\ used[i].start_offset = used[j].start_offset
                       /\ EmissionRank(used[i]) < EmissionRank(used[j])

\* A file with an empty program header table, a skipped SHT_NOBITS section
\* and a section that starts where the section header table starts: the
\* table comes first, four blocks in all.
C6_Witness ==
    /\ DOMAIN elf = {1}
    /\ Len(elf[1].sections) = 2
    /\ elf[1].sections[1].header["sh_type"] = "SHT_NOBITS"
    /\ Len(elf[1].used_blocks) = 4
    /\ elf[1].header["e_phnum"] = 0
    /\ \E i \in 1 .. 3 :
          /\ elf[1].used_blocks[i].block_type = "SECTION_HEADER_TABLE"
          /\ elf[1].used_blocks[i + 1].block_type = "SECTION"
          /\ elf[1].used_blocks[i].start_offset
                = elf[1].used_blocks[i + 1].start_offset
          /\ elf[1].used_blocks[i].start_offset > 0

\* A NOT_USED block of a file.
Gap(h, from, to) == Block(from, to - from, "NOT_USED", h, NoObject)

\* C7: the not-used blocks of a file are exactly a block [cur.end,
\* next.start) for each adjacent pair of used blocks with cur.end <
\* next.start, a block [last.end, file_size) iff last.end < file_size, and a
\* block [0, first.start) iff the first used block starts after 0; they are
\* in ascending order.  A file of a header of H bytes at 0, a program header
\* table of P bytes behind it, a section header table of S bytes behind
\* that, no section block and F > H+P+S bytes has the one gap [H+P+S, F).
C7_NotUsedBlocks ==
    \A h \in DOMAIN elf :
        LET e == elf[h]
            used == e.used_blocks
            gaps == e.not_used_blocks
            n == Len(used)
            F == Len(e.stream)
            End(b) == b.start_offset + b.size
            expected ==
                { Gap(h, End(used[i]), used[i + 1].start_offset) :
                    i \in { i \in 1 .. n - 1 :
                              End(used[i]) < used[i + 1].start_offset } }
                \cup (IF End(used[n]) < F
                      THEN { Gap(h, End(used[n]), F) } ELSE {})
                \cup (IF used[1].start_offset > 0
                      THEN { Gap(h, 0, used[1].start_offset) } ELSE {})
            H == e.header["e_ehsize"]
            P == e.header["e_phentsize"] * e.header["e_phnum"]
            S == e.header["e_shentsize"] * e.header["e_shnum"]
        IN  /\ Range(gaps) = expected
            /\ Len(gaps) = Cardinality(expected)
            /\ \A i, j \in DOMAIN gaps :
                  i < j => gaps[i].start_offset < gaps[j].start_offset
            /\ ( /\ n = 3
                 /\ e.header["e_phoff"] = H
                 /\ e.header["e_shoff"] = H + P
                 /\ F > H + P + S )
               => gaps = <<Gap(h, H + P + S, F)>>

\* The file of the example with H = 2, P = 1, S = 1 (the header of a null
\* section) and F = 5: its one gap is [4, 5).
C7_Witness ==
    /\ DOMAIN elf = {1}
    /\ Len(elf[1].used_blocks) = 3
    /\ elf[1].header["e_ehsize"] = 2
    /\ elf[1].header["e_phoff"] = 2
    /\ elf[1].header["e_phentsize"] * elf[1].header["e_phnum"] = 1
    /\ elf[1].header["e_shoff"] = 3
    /\ elf[1].header["e_shnum"] = 1
    /\ Len(elf[1].stream) = 5
    /\ elf[1].not_used_blocks = <<Gap(1, 4, 5)>>

\* C8 as claimed: _check_overlapped_blocks returns the pair (cur, next) of
\* consecutive blocks iff cur.start_offset + cur.size > next.start_offset,
\* and no other pair.
C8_OverlapIffEndPastStart ==
    overlapped /= <<>> =>
        LET blocks == elf[1].used_blocks IN
        /\ \A i \in 1 .. Len(blocks) - 1 :
              (<<blocks[i], blocks[i + 1]>> \in Range(overlapped[1]))
                = (blocks[i].start_offset + blocks[i].size
                      > blocks[i + 1].start_offset)
        /\ \A pair \in Range(overlapped[1]) :
              \E i \in 1 .. Len(blocks) - 1 : pair = <<blocks[i], blocks[i + 1]>>

\* C18: no byte of a not used block of a file lies in a used block of the
\* file, also when used blocks overlap or one used block holds later ones.
C18_GapsHoldNoUsedByte ==
    \A h \in DOMAIN elf :
        \A g \in Range(elf[h].not_used_blocks), u \in Range(elf[h].used_blocks) :
            ~ \E offset \in 0 .. MaxFile + MaxOff + MaxSize :
                /\ g.start_offset <= offset
                /\ offset < g.start_offset + g.size
                /\ u.start_offset <= offset
                /\ offset < u.start_offset + u.size

\* ------------------------------------------------------- the comparison step

\* left.compare_to(right) on two open files: the whole of compare_to, the
\* header, segment, section and block comparisons included.  The ElfDiff
\* is a new object, left keeps it as compare_result and remembers right as
\* other, and the differences of the not used blocks go to the default
\* list.
CompareTo ==
    \E self \in DOMAIN elf, other \in DOMAIN elf :
        /\ self /= other
        /\ Len(reports) < MaxCompares
        /\ LET compared == compare_to(self, other) IN
            /\ reports' = Append(reports, compared.result)
            /\ default_diffs_in_not_used' =
                   default_diffs_in_not_used \o compared.appended
            /\ elf' = [elf EXCEPT ![self].other = <<other>>,
                                  ![self].compare_result = Len(reports) + 1]
        /\ UNCHANGED <<overlapped, calls, locate_vars, dict_vars>>

\* ------------------------------------------------------- specification Spec
\* Two files are open and are compared, in either direction, up to
\* MaxCompares times.  The files are of seven bytes: an ELF header in
\* [0,2), a program header table of one entry in [2,3), a section header
\* table of one entry in [3,4), and one section .text that lies over the
\* header (offsets 0 and 1), touches the tables (offset 4) or leaves a gap
\* behind them (offset 5); the one segment loads the section.  At most one
\* byte of the stream is 1.

CmpFile(osabi, sec_off, sec_size, one_at) ==
    [header |->
        [e_ehsize |-> 2, e_phoff |-> 2, e_phentsize |-> 1, e_phnum |-> 1,
         e_shoff |-> 3, e_shentsize |-> 1, e_shnum |-> 1,
         e_ident |-> [EI_OSABI |-> osabi, EI_ABIVERSION |-> 0]],
     sections |->
        << [name |-> ".text",
            header |-> [sh_name |-> 1, sh_type |-> "SHT_PROGBITS",
                        sh_offset |-> sec_off, sh_size |-> sec_size],
            null |-> FALSE] >>,
     segments |->
        << [p_type |-> "PT_LOAD", p_offset |-> sec_off, p_filesz |-> sec_size] >>,
     stream |-> [i \in 1 .. 7 |-> IF i = one_at THEN 1 ELSE 0]]

CmpFiles ==
    { CmpFile(osabi, sec_off, sec_size, one_at) :
        osabi \in 0 .. 1, sec_off \in {0, 1, 4, 5}, sec_size \in 1 .. 2,
        one_at \in {0, 5, 7} }

Init ==
    /\ \E left \in CmpFiles, right \in CmpFiles :
          elf = <<ComparableElf(1, left), ComparableElf(2, right)>>
    /\ overlapped = <<>>
    /\ reports = <<>>
    /\ default_diffs_in_not_used = <<>>
    /\ calls = <<>>
    /\ LocateIdle
    /\ DictIdle

Next == CompareTo

Spec == Init /\ [][Next]_vars

\* Two consecutive blocks of an offset-sorted list share a byte.
SomeOverlap(blocks) ==
    \E i \in 1 .. Len(blocks) - 1 :
        blocks[i].start_offset + blocks[i].size > blocks[i + 1].start_offset

\* C9: in every report of compare_to, left_overlaps_in_used and
\* right_overlaps_in_used are the overlap lists of the used blocks of the
\* left and of the right file, and when two consecutive used blocks of
\* either file overlap, the list of that file is not empty and
\* compared_blocks.has_changes() holds, whatever the other file is.
C9_OverlapsOfUsedBlocks ==
    \A k \in DOMAIN reports :
        LET blocks == reports[k].compared_blocks
            left == elf[reports[k].left_elf]
            right == elf[reports[k].right_elf]
        IN  /\ blocks.left_overlaps_in_used = CheckOverlappedBlocks(left.used_blocks)
            /\ blocks.right_overlaps_in_used = CheckOverlappedBlocks(right.used_blocks)
            /\ SomeOverlap(left.used_blocks) =>
                   /\ blocks.left_overlaps_in_used /= <<>>
                   /\ AllBlocksDiff_has_changes(blocks, default_diffs_in_not_used)
            /\ SomeOverlap(right.used_blocks) =>
                   /\ blocks.right_overlaps_in_used /= <<>>
                   /\ AllBlocksDiff_has_changes(blocks, default_diffs_in_not_used)

\* The i-th not used blocks of two files differ in size or in bytes.
GapsDiffer(block_1, block_2) ==
    \/ block_1.size /= block_2.size
    \/ locate_array_diff(Block_data(block_1), Block_data(block_2)) /= -1

\* The places in a list of NotUsedBlockDiff of the entries for two blocks.
EntriesFor(list, block_1, block_2) ==
    { j \in DOMAIN list :
        list[j].left_block = <<block_1>> /\ list[j].right_block = <<block_2>> }

\* C11: in every report of two files with the same number of not used
\* blocks counts_of_not_used is None, and diffs_in_not_used has an entry
\* for the i-th blocks of the two files iff their sizes differ or
\* locate_array_diff tells their bytes apart; the entry holds data_sizes =
\* (left size, right size) iff the sizes differ, and the offset
\* locate_array_diff found; blocks of equal size and bytes have no entry,
\* wherever they start; and after the first comparison the entries are as
\* many as the pairs that differ, in the order of the offsets.
C11_GapPairing ==
    \A k \in DOMAIN reports :
        LET blocks == reports[k].compared_blocks
            list == DiffsInNotUsed(blocks)
            gaps_1 == elf[reports[k].left_elf].not_used_blocks
            gaps_2 == elf[reports[k].right_elf].not_used_blocks
        IN  Len(gaps_1) = Len(gaps_2) =>
              /\ blocks.counts_of_not_used = <<>>
              /\ \A i \in DOMAIN gaps_1 :
                    LET entries == EntriesFor(list, gaps_1[i], gaps_2[i]) IN
                    /\ entries /= {} <=> GapsDiffer(gaps_1[i], gaps_2[i])
                    /\ \A j \in entries :
                          /\ list[j].data_sizes =
                                IF gaps_1[i].size /= gaps_2[i].size
                                THEN <<gaps_1[i].size, gaps_2[i].size>> ELSE <<>>
                          /\ list[j].data_diff_offset =
                                locate_array_diff(Block_data(gaps_1[i]),
                                                  Block_data(gaps_2[i]))
                    /\ (gaps_1[i].size = gaps_2[i].size
                          /\ Block_data(gaps_1[i]) = Block_data(gaps_2[i]))
                       => entries = {}
              /\ Len(reports) = 1 =>
                    /\ Len(list) =
                          Cardinality({ i \in DOMAIN gaps_1 :
                                          GapsDiffer(gaps_1[i], gaps_2[i]) })
                    /\ \A j \in 1 .. Len(list) - 1 :
                          list[j].left_block[1].start_offset
                              < list[j + 1].left_block[1].start_offset

\* Two files of two not used blocks each have been compared: the first
\* blocks are equal in size and bytes but start at different offsets and
\* have no entry, the second blocks differ in size and have one.
C11_Witness ==
    \E k \in DOMAIN reports :
        LET list == DiffsInNotUsed(reports[k].compared_blocks)
            gaps_1 == elf[reports[k].left_elf].not_used_blocks
            gaps_2 == elf[reports[k].right_elf].not_used_blocks
        IN  /\ Len(gaps_1) = 2
            /\ Len(gaps_2) = 2
            /\ gaps_1[1].start_offset /= gaps_2[1].start_offset
            /\ EntriesFor(list, gaps_1[1], gaps_2[1]) = {}
            /\ gaps_1[2].size /= gaps_2[2].size
            /\ \E j \in EntriesFor(list, gaps_1[2], gaps_2[2]) :
                  list[j].data_sizes = <<gaps_1[2].size, gaps_2[2].size>>

\* C13: the report a call of compare_to returns has the content it has
\* when the call is the first comparison of the process: the same header,
\* segment, section and block results, the same diffs_in_not_used and the
\* same has_changes(), whatever comparisons were made before.
C13_SelfContained ==
    reports /= <<>> =>
        LET last == reports[Len(reports)]
            alone == compare_to(last.left_elf, last.right_elf)
            list == DiffsInNotUsed(last.compared_blocks)
        IN  /\ last = alone.result
            /\ list = alone.appended
            /\ ElfDiff_has_changes(last, list)
                  = ElfDiff_has_changes(alone.result, alone.appended)

\* A DictDiff has a left-only, a right-only or a modified key.
DictDiffNonEmpty(diff) ==
    Cardinality(diff.left_new) + Cardinality(diff.right_new)
        + Cardinality(DOMAIN diff.modified) > 0

\* C16: for every report of compare_to, has_changes() holds iff the header
\* diff has a left-only, right-only or modified key, or the segment diff
\* has one, or the section diff has a left-only or right-only name or a
\* modified section, or the block diff has an overlap on either side, a
\* pair of counts or an entry in diffs_in_not_used.
C16_HasChanges ==
    \A k \in DOMAIN reports :
        LET report == reports[k]
            blocks == report.compared_blocks
            list == DiffsInNotUsed(blocks)
        IN  ElfDiff_has_changes(report, list) <=>
              \/ DictDiffNonEmpty(report.compared_elf_headers)
              \/ DictDiffNonEmpty(report.compared_segments)
              \/ Cardinality(report.compared_sections.left_new) > 0
              \/ Cardinality(report.compared_sections.right_new) > 0
              \/ Cardinality(DOMAIN report.compared_sections.modified) > 0
              \/ Len(blocks.left_overlaps_in_used) > 0
              \/ Len(blocks.right_overlaps_in_used) > 0
              \/ Len(blocks.counts_of_not_used) > 0
              \/ Len(list) > 0

\* A report whose header diff alone is not empty, and has_changes() holds
\* of it.
C16_Witness ==
    \E k \in DOMAIN reports :
        LET report == reports[k]
            list == DiffsInNotUsed(report.compared_blocks)
        IN  /\ DictDiffNonEmpty(report.compared_elf_headers)
            /\ ~DictDiffNonEmpty(report.compared_segments)
            /\ ~AllSectionsDiff_has_changes(report.compared_sections)
            /\ ~AllBlocksDiff_has_changes(report.compared_blocks, list)
            /\ ElfDiff_has_changes(report, list)

\* C20: a call of compare_to changes no report returned before it: every
\* ElfDiff there is keeps its header, segment, section and block results,
\* its counts_of_not_used and overlap lists, and the content of its
\* diffs_in_not_used.
C20_ReportsKept ==
    [][\A k \in DOMAIN reports :
          /\ reports'[k] = reports[k]
          /\ DiffsInNotUsed(reports[k].compared_blocks)'
                = DiffsInNotUsed(reports[k].compared_blocks)]_vars

\* ----------------------------------------------- specification SpecSections
\* Two files that differ in their sections are open and are compared.  A
\* file has an ELF header in [0,2), no segments, its sections one after
\* the other from offset 2 on and the section header table behind them:
\* .text of one byte, .data of three or four bytes, .new of one byte, each
\* present or not.  sh_name is the place of the name in the string table.

RECURSIVE Concat(_)
Concat(seqs) == IF seqs = <<>> THEN <<>> ELSE Head(seqs) \o Concat(Tail(seqs))

\* A section to lay out: its name, its sh_name and its bytes.
Payload(name, sh_name, bytes) == [name |-> name, sh_name |-> sh_name, bytes |-> bytes]

TextChoices == { <<>> } \cup { <<Payload(".text", 1, b)>> : b \in { <<0>>, <<1>> } }

DataChoices ==
    { <<>> } \cup
    { <<Payload(".data", n, b)>> :
        n \in 2 .. 3, b \in { <<0, 0, 0, 0>>, <<0, 0, 0, 1>>, <<0, 0, 0>> } }

NewChoices == { <<>>, <<Payload(".new", 4, <<1>>)>> }

SecFile(payloads) ==
    LET bytes == [i \in DOMAIN payloads |-> payloads[i].bytes]
        before(i) == Len(Concat(SubSeq(bytes, 1, i - 1)))
    IN  [header |->
            [e_ehsize |-> 2, e_phoff |-> 2, e_phentsize |-> 1, e_phnum |-> 0,
             e_shoff |-> 2 + Len(Concat(bytes)), e_shentsize |-> 1,
             e_shnum |-> Len(payloads),
             e_ident |-> [EI_OSABI |-> 0, EI_ABIVERSION |-> 0]],
         sections |->
            [i \in DOMAIN payloads |->
                [name |-> payloads[i].name,
                 header |-> [sh_name |-> payloads[i].sh_name,
                             sh_type |-> "SHT_PROGBITS",
                             sh_offset |-> 2 + before(i),
                             sh_size |-> Len(payloads[i].bytes)],
                 null |-> FALSE]],
         segments |-> <<>>,
         stream |-> <<0, 0>> \o Concat(bytes) \o [i \in DOMAIN payloads |-> 0]]

SecFiles ==
    { SecFile(text \o data \o new) :
        text \in TextChoices, data \in DataChoices, new \in NewChoices }

SectionsInit ==
    /\ \E left \in SecFiles, right \in SecFiles :
          elf = <<ComparableElf(1, left), ComparableElf(2, right)>>
    /\ overlapped = <<>>
    /\ reports = <<>>
    /\ default_diffs_in_not_used = <<>>
    /\ calls = <<>>
    /\ LocateIdle
    /\ DictIdle

SectionsNext == CompareTo

SpecSections == SectionsInit /\ [][SectionsNext]_vars

\* The files A = {.text: X, .data: Y} and B = {.text: X, .data: Y', .new: Z}
\* where Y' differs from Y at byte 3 only.
ExampleA ==
    SecFile(<<Payload(".text", 1, <<0>>), Payload(".data", 2, <<0, 0, 0, 0>>)>>)

ExampleB ==
    SecFile(<<Payload(".text", 1, <<0>>), Payload(".data", 2, <<0, 0, 0, 1>>),
              Payload(".new", 4, <<1>>)>>)

IsFile(object, file) ==
    /\ object.header = file.header
    /\ object.sections = file.sections
    /\ object.stream = file.stream

SectionNames(object) == { object.sections[i].name : i \in DOMAIN object.sections }

SectionNamed(object, name) ==
    object.sections[CHOOSE i \in DOMAIN object.sections :
                        object.sections[i].name = name]

\* The two headers differ in a field other than sh_name.
HeadersDifferBesideName(header_1, header_2) ==
    \/ DOMAIN header_1 /= DOMAIN header_2
    \/ \E field \in (DOMAIN header_1) \ {"sh_name"} :
          header_1[field] /= header_2[field]

\* C10: in every report of compare_to, compared_sections has as left_new
\* the section names only the left file has, as right_new the names only
\* the right file has, and as keys of modified the common names whose
\* headers differ beside sh_name, whose payload lengths differ or whose
\* payloads locate_array_diff tells apart; a common section of equal
\* payload and of headers that differ at most in sh_name is no key of
\* modified; and the files A and B give no left_new, right_new {.new} and
\* modified {.data: data_diff_offset 3}.
C10_CompareSections ==
    \A k \in DOMAIN reports :
        LET left == elf[reports[k].left_elf]
            right == elf[reports[k].right_elf]
            compared == reports[k].compared_sections
            common == SectionNames(left) \cap SectionNames(right)
            header_1(n) == SectionNamed(left, n).header
            header_2(n) == SectionNamed(right, n).header
            data_1(n) == Section_data(SectionNamed(left, n), left.stream)
            data_2(n) == Section_data(SectionNamed(right, n), right.stream)
        IN  /\ compared.left_new = SectionNames(left) \ SectionNames(right)
            /\ compared.right_new = SectionNames(right) \ SectionNames(left)
            /\ DOMAIN compared.modified \subseteq common
            /\ \A n \in common :
                  /\ n \in DOMAIN compared.modified <=>
                        \/ HeadersDifferBesideName(header_1(n), header_2(n))
                        \/ Len(data_1(n)) /= Len(data_2(n))
                        \/ locate_array_diff(data_1(n), data_2(n)) /= -1
                  /\ (data_1(n) = data_2(n)
                        /\ ~HeadersDifferBesideName(header_1(n), header_2(n)))
                     => n \notin DOMAIN compared.modified
            /\ (IsFile(left, ExampleA) /\ IsFile(right, ExampleB)) =>
                  compared = AllSectionsDiff({}, {".new"},
                                 [n \in {".data"} |-> SectionDiff(<<>>, <<>>, 3)])

\* A has been compared to B, and the report names .data with offset 3.
C10_Witness ==
    \E k \in DOMAIN reports :
        LET left == elf[reports[k].left_elf]
            right == elf[reports[k].right_elf]
        IN  /\ IsFile(left, ExampleA)
            /\ IsFile(right, ExampleB)
            /\ reports[k].compared_sections.modified[".data"].data_diff_offset = 3

\* ------------------------------------------------ specification SpecProcess
\* Three files are open in one process and are compared, any to any other,
\* up to MaxCompares times.  The files are those of Spec with the section
\* behind the tables: with one not used block or with two, with a byte of
\* the first not used block set or not, with other values of EI_OSABI and
\* EI_ABIVERSION, and with a section declared behind the end of the file.

ProcFile(osabi, abiversion, sec_off, sec_size, one_at) ==
    LET file == CmpFile(osabi, sec_off, sec_size, one_at) IN
    [file EXCEPT !.header.e_ident.EI_ABIVERSION = abiversion]

ProcFiles ==
    { ProcFile(0, 0, 5, 1, 0), ProcFile(0, 0, 5, 1, 5), ProcFile(1, 1, 5, 1, 0),
      ProcFile(1, 0, 5, 1, 0), ProcFile(0, 0, 5, 2, 0), ProcFile(0, 0, 9, 1, 0) }

ProcessInit ==
    /\ \E first \in ProcFiles, second \in ProcFiles, third \in ProcFiles :
          elf = <<ComparableElf(1, first), ComparableElf(2, second),
                  ComparableElf(3, third)>>
    /\ overlapped = <<>>
    /\ reports = <<>>
    /\ default_diffs_in_not_used = <<>>
    /\ calls = <<>>
    /\ LocateIdle
    /\ DictIdle

ProcessNext == CompareTo

SpecProcess == ProcessInit /\ [][ProcessNext]_vars

\* The report the last call of compare_to returned.
LastReport == reports[Len(reports)]

\* C12: when the two files of a comparison have different numbers of not
\* used blocks, the report the call returns has counts_of_not_used = (left
\* count, right count) and an empty diffs_in_not_used.
C12_CountsOnly ==
    reports /= <<>> =>
        LET blocks == LastReport.compared_blocks
            count_1 == Len(elf[LastReport.left_elf].not_used_blocks)
            count_2 == Len(elf[LastReport.right_elf].not_used_blocks)
        IN  count_1 /= count_2 =>
              /\ blocks.counts_of_not_used = <<count_1, count_2>>
              /\ DiffsInNotUsed(blocks) = <<>>

\* The not used blocks whose data() the comparison of a report read: all
\* of both files when their numbers are equal, none otherwise.
BlocksRead(report) ==
    LET gaps_1 == elf[report.left_elf].not_used_blocks
        gaps_2 == elf[report.right_elf].not_used_blocks
    IN  IF Len(gaps_1) = Len(gaps_2)
        THEN { gaps_1[i] : i \in DOMAIN gaps_1 } \cup { gaps_2[i] : i \in DOMAIN gaps_2 }
        ELSE {}

\* C14: Block.data() returns exactly size bytes or fails, and with it the
\* comparison: no comparison that read a block reaching behind the end of
\* its file has returned a report, and the bytes read of every block are
\* size many.
C14_ExactReadOrFailure ==
    \A k \in DOMAIN reports :
        \A block \in BlocksRead(reports[k]) :
            /\ block.start_offset + block.size <= Len(elf[block.elf].stream)
            /\ Len(Block_data(block)) = block.size

\* The header fields that have no part in the layout of a file.
NoLayoutFields == {"EI_OSABI", "EI_ABIVERSION"}

\* The header fields in which two objects differ.
HeaderFieldsDiffering(left, right) ==
    { field \in DOMAIN left.header_raw \cup DOMAIN right.header_raw :
        \/ field \notin DOMAIN left.header_raw \cap DOMAIN right.header_raw
        \/ left.header_raw[field] /= right.header_raw[field] }

\* Two objects of files that are the same but for header fields that have
\* no part in the layout.
SameButHeader(left, right) ==
    /\ left.stream = right.stream
    /\ left.sections = right.sections
    /\ left.segments = right.segments
    /\ HeaderFieldsDiffering(left, right) \subseteq NoLayoutFields

\* C15: the header maps compared are flat (every e_ident sub-field is a
\* key, e_ident is none), and the report compare_to returns for two files
\* that are the same but for a set K of header fields without part in the
\* layout has a header diff with the modified keys K, each with the pair
\* (left value, right value), no left_new and no right_new, and no changes
\* of segments, sections and blocks.
C15_HeaderOnly ==
    /\ \A h \in DOMAIN elf :
          /\ "e_ident" \notin DOMAIN elf[h].header_raw
          /\ DOMAIN elf[h].header["e_ident"] \subseteq DOMAIN elf[h].header_raw
    /\ reports /= <<>> =>
          LET left == elf[LastReport.left_elf]
              right == elf[LastReport.right_elf]
              headers == LastReport.compared_elf_headers
          IN  SameButHeader(left, right) =>
                /\ DOMAIN headers.modified = HeaderFieldsDiffering(left, right)
                /\ \A field \in DOMAIN headers.modified :
                      headers.modified[field] =
                          [kind |-> "pair", left |-> left.header_raw[field],
                           right |-> right.header_raw[field]]
                /\ headers.left_new = {}
                /\ headers.right_new = {}
                /\ ~DictDiff_has_changes(LastReport.compared_segments)
                /\ ~AllSectionsDiff_has_changes(LastReport.compared_sections)
                /\ ~AllBlocksDiff_has_changes(LastReport.compared_blocks,
                        DiffsInNotUsed(LastReport.compared_blocks))

\* ------------------------------------------------ specification SpecThreads
\* Four files are open; one thread runs elf[1].compare_to(elf[2]), another
\* elf[3].compare_to(elf[4]), and the steps of the two calls interleave in
\* any order.  A step is a stretch of compare_to that touches one object
\* other threads can reach at most: the start of the call up to the loop
\* of _compare_blocks, one turn of the loop, the rest of the call.

\* The files: two not used blocks with no byte, a byte of the first or a
\* byte of the second set, or one not used block.
ThreadFiles ==
    { ProcFile(0, 0, 5, 1, 0), ProcFile(0, 0, 5, 1, 5), ProcFile(0, 0, 5, 1, 7),
      ProcFile(0, 0, 5, 2, 0) }

ThreadsInit ==
    /\ \E f1 \in ThreadFiles, f2 \in ThreadFiles, f3 \in ThreadFiles,
          f4 \in ThreadFiles :
          elf = <<ComparableElf(1, f1), ComparableElf(2, f2),
                  ComparableElf(3, f3), ComparableElf(4, f4)>>
    /\ calls = << [self |-> 1, other |-> 2, pc |-> "start", i |-> 0, report |-> 0],
                  [self |-> 3, other |-> 4, pc |-> "start", i |-> 0, report |-> 0] >>
    /\ overlapped = <<>>
    /\ reports = <<>>
    /\ default_diffs_in_not_used = <<>>
    /\ LocateIdle
    /\ DictIdle

\* The two files of a call have the same number of not used blocks.
EqualCounts(call) ==
    Len(elf[call.self].not_used_blocks) = Len(elf[call.other].not_used_blocks)

\* compare_to from its first line to the loop of _compare_blocks: the new
\* ElfDiff with the header, segment and section results, compared_blocks
\* still None.
ThreadBegin(t) ==
    /\ calls[t].pc = "start"
    /\ LET self == calls[t].self
           other == calls[t].other
       IN  /\ elf' = [elf EXCEPT ![self].other = <<other>>,
                                 ![self].compare_result = Len(reports) + 1]
           /\ reports' =
                 Append(reports,
                        ElfDiff(self, other,
                                compare_dict(elf[self].header_raw,
                                             elf[other].header_raw,
                                             FALSE, TRUE, FALSE, "eq"),
                                CompareSegments(elf[self], elf[other]),
                                CompareSections(elf[self], elf[other]),
                                <<>>))
           /\ calls' = [calls EXCEPT ![t].pc = "blocks", ![t].i = 1,
                                     ![t].report = Len(reports) + 1]
    /\ UNCHANGED <<overlapped, default_diffs_in_not_used, locate_vars, dict_vars>>

\* One turn of the loop of _compare_blocks: the i-th blocks are compared
\* and their NotUsedBlockDiff, if it has changes, is appended to the list
\* result.diffs_in_not_used names.
ThreadBlockStep(t) ==
    /\ calls[t].pc = "blocks"
    /\ EqualCounts(calls[t])
    /\ calls[t].i <= Len(elf[calls[t].self].not_used_blocks)
    /\ LET i == calls[t].i
           blocks_1 == elf[calls[t].self].not_used_blocks
           blocks_2 == elf[calls[t].other].not_used_blocks
       IN  default_diffs_in_not_used' =
               default_diffs_in_not_used
                   \o NotUsedDiffsFrom(SubSeq(blocks_1, i, i), SubSeq(blocks_2, i, i), 1)
    /\ calls' = [calls EXCEPT ![t].i = @ + 1]
    /\ UNCHANGED <<elf, overlapped, reports, locate_vars, dict_vars>>

\* The rest of _compare_blocks and of compare_to: the counts when they
\* differ, the overlap lists, compared_blocks, the return.
ThreadFinish(t) ==
    /\ calls[t].pc = "blocks"
    /\ ~EqualCounts(calls[t]) \/ calls[t].i > Len(elf[calls[t].self].not_used_blocks)
    /\ reports' = [reports EXCEPT ![calls[t].report].compared_blocks =
                      CompareBlocks(elf[calls[t].self], elf[calls[t].other]).result]
    /\ calls' = [calls EXCEPT ![t].pc = "done"]
    /\ UNCHANGED <<elf, overlapped, default_diffs_in_not_used, locate_vars, dict_vars>>

ThreadsNext ==
    \E t \in DOMAIN calls : ThreadBegin(t) \/ ThreadBlockStep(t) \/ ThreadFinish(t)

SpecThreads == ThreadsInit /\ [][ThreadsNext]_vars

\* C17: a call of compare_to that ran in a thread while another call ran
\* on two other files has returned the report it returns when it runs
\* alone, the content of diffs_in_not_used included, and the other call
\* writes nothing the report reaches.
C17_ThreadsApart ==
    \A t \in DOMAIN calls :
        calls[t].pc = "done" =>
            LET report == reports[calls[t].report]
                alone == compare_to(calls[t].self, calls[t].other)
            IN  /\ report = alone.result
                /\ DiffsInNotUsed(report.compared_blocks) = alone.appended

\* --------------------------------------------- specification SpecDuplicates
\* Two files with two segments and two sections each are open and are
\* compared.  A file has an ELF header in [0,2), a program header table in
\* [2,4), a section header table in [4,6), the section .a of one byte at
\* offset 6 and behind it a second section of one byte, named .a as well
\* or .b; the first segment is a PT_LOAD at offset 0, the second
\* has the same type and offset or another.  The byte at offset 7 is 1.

DupFile(seg_type, seg_off, seg_filesz, sec_name) ==
    [header |->
        [e_ehsize |-> 2, e_phoff |-> 2, e_phentsize |-> 1, e_phnum |-> 2,
         e_shoff |-> 4, e_shentsize |-> 1, e_shnum |-> 2,
         e_ident |-> [EI_OSABI |-> 0, EI_ABIVERSION |-> 0]],
     sections |->
        << [name |-> ".a",
            header |-> [sh_name |-> 1, sh_type |-> "SHT_PROGBITS",
                        sh_offset |-> 6, sh_size |-> 1],
            null |-> FALSE],
           [name |-> sec_name,
            header |-> [sh_name |-> 2, sh_type |-> "SHT_PROGBITS",
                        sh_offset |-> 7, sh_size |-> 1],
            null |-> FALSE] >>,
     segments |->
        << [p_type |-> "PT_LOAD", p_offset |-> 0, p_filesz |-> 1],
           [p_type |-> seg_type, p_offset |-> seg_off, p_filesz |-> seg_filesz] >>,
     stream |-> [i \in 1 .. 9 |-> IF i = 8 THEN 1 ELSE 0]]

DupFiles ==
    { DupFile(seg_type, seg_off, seg_filesz, sec_name) :
        seg_type \in {"PT_LOAD", "PT_NOTE"}, seg_off \in 0 .. 1,
        seg_filesz \in 1 .. 2, sec_name \in {".a", ".b"} }

DuplicatesInit ==
    /\ \E left \in DupFiles, right \in DupFiles :
          elf = <<ComparableElf(1, left), ComparableElf(2, right)>>
    /\ overlapped = <<>>
    /\ reports = <<>>
    /\ default_diffs_in_not_used = <<>>
    /\ calls = <<>>
    /\ LocateIdle
    /\ DictIdle

DuplicatesNext == CompareTo

SpecDuplicates == DuplicatesInit /\ [][DuplicatesNext]_vars

\* The element of a sequence is the last one that satisfies what the
\* indices in "same" satisfy.
IsLastOf(i, same) == i \in same /\ \A j \in same : j <= i

\* C19: _group_segments has the key p_type and under it the key p_offset
\* for every (p_type, p_offset) among the segments and no other key, and
\* holds there the header of the last segment with that pair; the map of
\* the sections by name holds for every name the last section of that
\* name; and the comparison of files with such duplicates goes through:
\* compare_to can be called, and its report compares the sections that
\* are the last of their names.
C19_DuplicatesCollapse ==
    /\ \A h \in DOMAIN elf :
          LET segments == elf[h].segments
              sections == elf[h].sections
              grouped == group_segments(segments)
              by_name == SectionsDict(sections)
          IN  /\ DOMAIN grouped = { segments[i]["p_type"] : i \in DOMAIN segments }
              /\ \A i \in DOMAIN segments :
                    segments[i]["p_offset"]
                        \in DOMAIN grouped[segments[i]["p_type"]].val
              /\ \A type \in DOMAIN grouped :
                    \A offset \in DOMAIN grouped[type].val :
                        \E i \in DOMAIN segments :
                            /\ IsLastOf(i, { j \in DOMAIN segments :
                                               /\ segments[j]["p_type"] = type
                                               /\ segments[j]["p_offset"] = offset })
                            /\ grouped[type].val[offset] = Mapping(AsDict(segments[i]))
              /\ DOMAIN by_name = { sections[i].name : i \in DOMAIN sections }
              /\ \A name \in DOMAIN by_name :
                    \E i \in DOMAIN sections :
                        /\ IsLastOf(i, { j \in DOMAIN sections :
                                           sections[j].name = name })
                        /\ by_name[name] = sections[i]
    /\ Len(reports) < MaxCompares => ENABLED CompareTo
    /\ \A k \in DOMAIN reports :
          LET left == elf[reports[k].left_elf]
              right == elf[reports[k].right_elf]
              Last(object, name) ==
                  object.sections[
                      CHOOSE i \in DOMAIN object.sections :
                          IsLastOf(i, { j \in DOMAIN object.sections :
                                          object.sections[j].name = name })]
          IN  \A name \in SectionNames(left) \cap SectionNames(right) :
                  LET diff == CompareSection(Last(left, name), left.stream,
                                             Last(right, name), right.stream)
                  IN  IF SectionDiff_has_changes(diff)
                      THEN /\ name \in DOMAIN reports[k].compared_sections.modified
                           /\ reports[k].compared_sections.modified[name] = diff
                      ELSE name \notin DOMAIN reports[k].compared_sections.modified

\* A file with two segments of one type and offset and two sections of one
\* name has been compared with a file without such duplicates.
C19_Witness ==
    \E k \in DOMAIN reports :
        LET left == elf[reports[k].left_elf]
            right == elf[reports[k].right_elf]
        IN  /\ left.segments[1]["p_type"] = left.segments[2]["p_type"]
            /\ left.segments[1]["p_offset"] = left.segments[2]["p_offset"]
            /\ left.segments[1] /= left.segments[2]
            /\ left.sections[1].name = left.sections[2].name
            /\ right.sections[1].name /= right.sections[2].name
            /\ right.segments[1]["p_type"] /= right.segments[2]["p_type"]
            /\ ".a" \in DOMAIN reports[k].compared_sections.modified


====
